---------------------------- MODULE Spec2Model ----------------------------
(***************************************************************************)
(* sqlpp11-connector-postgresql: the result cursor (bind_result_t over a   *)
(* prepared_statement_handle_t and a libpq PGresult) and the exception     *)
(* hierarchy of sqlpp::postgresql.                                         *)
(*                                                                         *)
(* Spec     drives one result buffer through two handles that differ only  *)
(*          in the debug flag: every call is made on both.                 *)
(* SpecExc  constructs, throws and catches the exception classes.          *)
(***************************************************************************)
EXTENDS Integers, Sequences, FiniteSets, TLC

VARIABLES result, handle, twin, last, lastTwin, retHist, exc, handler, caught

vars == <<result, handle, twin, last, lastTwin, retHist, exc, handler, caught>>

cursorVars == <<result, handle, twin, last, lastTwin, retHist>>

excVars == <<exc, handler, caught>>

(***************************************************************************)
(* Bounds.                                                                 *)
(***************************************************************************)
MaxRows == 2

MaxFields == 2

MaxCalls == 4

(***************************************************************************)
(* Cell texts are sequences of one-character strings.                      *)
(***************************************************************************)
Chars == {" ", "-", ".", "1", "2", "5", "f", "t", "x"}

CharCode ==
  [c \in Chars |->
     CASE c = " " -> 32 [] c = "-" -> 45 [] c = "." -> 46
       [] c = "1" -> 49 [] c = "2" -> 50 [] c = "5" -> 53
       [] c = "f" -> 102 [] c = "t" -> 116 [] c = "x" -> 120]

IsDigit(c) == c \in {"1", "2", "5"}

DigitVal(c) == CharCode[c] - 48

\* The cells a result buffer is filled from.  libpq stores a null cell with
\* an empty text.
Cells ==
  << [null |-> TRUE,  text |-> <<>>],
     [null |-> FALSE, text |-> <<"t">>],
     [null |-> FALSE, text |-> <<"1", "2">>],
     [null |-> FALSE, text |-> <<>>],
     [null |-> FALSE, text |-> <<"-", "1", ".", "5">>],
     [null |-> FALSE, text |-> <<"x">>],
     [null |-> FALSE, text |-> <<" ", "2", "x">>],
     [null |-> FALSE, text |-> <<"f">>] >>

\* PGresult with n tuples of f fields, filled from Cells starting at k.
MakeResult(n, f, k) ==
  [ntuples |-> n,
   nfields |-> f,
   cells   |-> [rc \in (0 .. n - 1) \X (0 .. f - 1) |->
                  Cells[((rc[1] * f + rc[2] + k) % Len(Cells)) + 1]]]

Results ==
  {MakeResult(n, f, k) : n \in 0 .. MaxRows, f \in 0 .. MaxFields,
                         k \in 0 .. Len(Cells) - 1}

(***************************************************************************)
(* libpq accessors used by bind_result.cpp.                                *)
(***************************************************************************)
PQntuples(res) == res.ntuples

PQnfields(res) == res.nfields

check_tuple_field_number(res, row, col) ==
  /\ row >= 0 /\ row < res.ntuples
  /\ col >= 0 /\ col < res.nfields

\* A pointer into the buffer is the cell it points at; <<>> is NULL.
NullPtr == <<>>

PQgetvalue(res, row, col) ==
  IF check_tuple_field_number(res, row, col)
    THEN [ptr |-> <<row, col>>, text |-> res.cells[<<row, col>>].text]
    ELSE [ptr |-> NullPtr, text |-> <<>>]

PQgetisnull(res, row, col) ==
  IF check_tuple_field_number(res, row, col)
    THEN res.cells[<<row, col>>].null
    ELSE TRUE

PQgetlength(res, row, col) ==
  IF check_tuple_field_number(res, row, col)
    THEN Len(res.cells[<<row, col>>].text)
    ELSE 0

(***************************************************************************)
(* std::istringstream extraction, "in >> *value".                          *)
(***************************************************************************)
RECURSIVE SkipWs(_)
SkipWs(s) ==
  IF s # <<>> /\ Head(s) = " " THEN SkipWs(Tail(s)) ELSE s

\* Number of leading digits of s.
RECURSIVE CountDigits(_)
CountDigits(s) ==
  IF s # <<>> /\ IsDigit(Head(s)) THEN 1 + CountDigits(Tail(s)) ELSE 0

\* Decimal value of the first n characters of s (all digits).
RECURSIVE DigitsValue(_, _)
DigitsValue(s, n) ==
  IF n = 0 THEN 0
  ELSE 10 * DigitsValue(s, n - 1) + DigitVal(s[n])

\* operator>>(istream&, signed char&): one character after white space; the
\* sentry fails on an exhausted stream and nothing is stored.
ExtractChar(text, old) ==
  LET t == SkipWs(text) IN
    IF t = <<>> THEN old ELSE CharCode[Head(t)]

\* operator>>(int64_t&): the sentry fails on an exhausted stream and nothing
\* is stored; otherwise num_get stores the number, or 0 when no digit is read.
ExtractIntegral(text, old) ==
  LET t    == SkipWs(text)
      neg  == t # <<>> /\ Head(t) = "-"
      body == IF neg THEN Tail(t) ELSE t
      n    == CountDigits(body)
      v    == DigitsValue(body, n)
  IN  IF t = <<>> THEN old
      ELSE IF n = 0 THEN 0
      ELSE IF neg THEN 0 - v ELSE v

\* operator>>(double&): as above with an optional fraction.  A double is
\* written m * 10^(-e).
ExtractFloating(text, old) ==
  LET t     == SkipWs(text)
      neg   == t # <<>> /\ Head(t) = "-"
      body  == IF neg THEN Tail(t) ELSE t
      n     == CountDigits(body)
      rest  == SubSeq(body, n + 1, Len(body))
      dot   == rest # <<>> /\ Head(rest) = "."
      frac  == IF dot THEN Tail(rest) ELSE <<>>
      k     == CountDigits(frac)
      m     == DigitsValue(body, n)
      f     == DigitsValue(frac, k)
      pow   == [i \in 0 .. 3 |-> CASE i = 0 -> 1 [] i = 1 -> 10
                                   [] i = 2 -> 100 [] i = 3 -> 1000]
      mant  == m * pow[k] + f
  IN  IF t = <<>> THEN old
      ELSE IF n + k = 0 THEN [m |-> 0, e |-> 0]
      ELSE [m |-> IF neg THEN 0 - mant ELSE mant, e |-> k]

(***************************************************************************)
(* The handle and the cursor operations.                                   *)
(***************************************************************************)
\* A handle as the connection creates it: no row read, no cached counts.
prepared_statement_handle_t(dbg) ==
  [count |-> 0, totalCount |-> 0, fields |-> 0, debug |-> dbg]

\* What a call writes to std::cerr.
DebugTrace(h, what) == IF h.debug THEN <<what>> ELSE <<>>

\* next_impl with the row index incremented before the comparison, so that
\* a call at the last row still moves it.
next_impl_increment_first(h, res) ==
  LET trace == DebugTrace(h, "accessing next row")
      stop == h.totalCount # 0 /\ ~(h.count < h.totalCount - 1)
      h1 == IF h.totalCount = 0
              THEN [h EXCEPT !.totalCount = PQntuples(res)]
              ELSE [h EXCEPT !.count = h.count + 1]
      h2 == IF h1.fields = 0
              THEN [h1 EXCEPT !.fields = PQnfields(res)]
              ELSE h1
  IN  IF stop THEN [h |-> h1, ret |-> FALSE, trace |-> trace]
      ELSE [h |-> h2, ret |-> TRUE, trace |-> trace]

\* bind_result_t::next_impl
next_impl(h, res) ==
  LET trace == DebugTrace(h, "accessing next row")
      h1 == IF h.totalCount = 0
              THEN [h EXCEPT !.totalCount = PQntuples(res)]
              ELSE IF h.count < h.totalCount - 1
                     THEN [h EXCEPT !.count = h.count + 1]
                     ELSE h
      stop == h.totalCount # 0 /\ ~(h.count < h.totalCount - 1)
      h2 == IF h1.fields = 0
              THEN [h1 EXCEPT !.fields = PQnfields(res)]
              ELSE h1
  IN  IF stop THEN [h |-> h, ret |-> FALSE, trace |-> trace]
      ELSE [h |-> h2, ret |-> TRUE, trace |-> trace]

\* What constructing a std::string from a null pointer does (undefined
\* behaviour): libstdc++ throws std::logic_error, other builds fault.
UBOutcomes == {"logic_error", "crash"}

\* The scalar decodes build a std::istringstream from PQgetvalue; on a cell
\* outside the buffer PQgetvalue is NULL and the build decides (ub).
\* _bind_boolean_result that fetches the field count when none is cached.
_bind_boolean_result_caching(h, res, index, pre, ub) ==
  LET trace == DebugTrace(h, "binding boolean result")
      hc    == IF h.fields = 0 THEN [h EXCEPT !.fields = PQnfields(res)]
               ELSE h
      cell  == PQgetvalue(res, hc.count, index)
  IN  IF index > hc.fields
        THEN [outcome |-> "out_of_range", read |-> FALSE, row |-> hc.count,
              post |-> pre, trace |-> trace, h |-> hc]
      ELSE IF cell.ptr = NullPtr
        THEN [outcome |-> ub, read |-> TRUE, row |-> hc.count,
              post |-> pre, trace |-> trace, h |-> hc]
      ELSE [outcome |-> "ok", read |-> TRUE, row |-> hc.count,
            post |-> [value   |-> ExtractChar(cell.text, pre.value),
                      is_null |-> PQgetisnull(res, hc.count, index)],
            trace |-> trace, h |-> hc]

\* bind_result_t::_bind_boolean_result
_bind_boolean_result(h, res, index, pre, ub) ==
  LET trace == DebugTrace(h, "binding boolean result")
      cell  == PQgetvalue(res, h.count, index)
  IN  IF index > h.fields
        THEN [outcome |-> "out_of_range", read |-> FALSE, row |-> h.count,
              post |-> pre, trace |-> trace, h |-> h]
      ELSE IF cell.ptr = NullPtr
        THEN [outcome |-> ub, read |-> TRUE, row |-> h.count,
              post |-> pre, trace |-> trace, h |-> h]
      ELSE [outcome |-> "ok", read |-> TRUE, row |-> h.count,
            post |-> [value   |-> ExtractChar(cell.text, pre.value),
                      is_null |-> PQgetisnull(res, h.count, index)],
            trace |-> trace, h |-> h]

\* _bind_floating_point_result whose debug branch swallows the extraction.
_bind_floating_point_result_debug_only(h, res, index, pre, ub) ==
  LET trace == DebugTrace(h, "binding floating_point result")
      cell  == PQgetvalue(res, h.count, index)
  IN  IF index > h.fields
        THEN [outcome |-> "out_of_range", read |-> FALSE, row |-> h.count,
              post |-> pre, trace |-> trace, h |-> h]
      ELSE IF cell.ptr = NullPtr
        THEN [outcome |-> ub, read |-> TRUE, row |-> h.count,
              post |-> pre, trace |-> trace, h |-> h]
      ELSE [outcome |-> "ok", read |-> TRUE, row |-> h.count,
            post |-> [value   |-> IF h.debug THEN pre.value
                                  ELSE ExtractFloating(cell.text, pre.value),
                      is_null |-> PQgetisnull(res, h.count, index)],
            trace |-> trace, h |-> h]

\* bind_result_t::_bind_floating_point_result
_bind_floating_point_result(h, res, index, pre, ub) ==
  LET trace == DebugTrace(h, "binding floating_point result")
      cell  == PQgetvalue(res, h.count, index)
  IN  IF index > h.fields
        THEN [outcome |-> "out_of_range", read |-> FALSE, row |-> h.count,
              post |-> pre, trace |-> trace, h |-> h]
      ELSE IF cell.ptr = NullPtr
        THEN [outcome |-> ub, read |-> TRUE, row |-> h.count,
              post |-> pre, trace |-> trace, h |-> h]
      ELSE [outcome |-> "ok", read |-> TRUE, row |-> h.count,
            post |-> [value   |-> ExtractFloating(cell.text, pre.value),
                      is_null |-> PQgetisnull(res, h.count, index)],
            trace |-> trace, h |-> h]

\* _bind_integral_result that takes an empty text for a null cell.
_bind_integral_result_null_from_text(h, res, index, pre, ub) ==
  LET trace == DebugTrace(h, "binding integral result")
      cell  == PQgetvalue(res, h.count, index)
  IN  IF index > h.fields
        THEN [outcome |-> "out_of_range", read |-> FALSE, row |-> h.count,
              post |-> pre, trace |-> trace, h |-> h]
      ELSE IF cell.ptr = NullPtr
        THEN [outcome |-> ub, read |-> TRUE, row |-> h.count,
              post |-> pre, trace |-> trace, h |-> h]
      ELSE [outcome |-> "ok", read |-> TRUE, row |-> h.count,
            post |-> [value   |-> ExtractIntegral(cell.text, pre.value),
                      is_null |-> (cell.text = <<>>)],
            trace |-> trace, h |-> h]

\* bind_result_t::_bind_integral_result
_bind_integral_result(h, res, index, pre, ub) ==
  LET trace == DebugTrace(h, "binding integral result")
      cell  == PQgetvalue(res, h.count, index)
  IN  IF index > h.fields
        THEN [outcome |-> "out_of_range", read |-> FALSE, row |-> h.count,
              post |-> pre, trace |-> trace, h |-> h]
      ELSE IF cell.ptr = NullPtr
        THEN [outcome |-> ub, read |-> TRUE, row |-> h.count,
              post |-> pre, trace |-> trace, h |-> h]
      ELSE [outcome |-> "ok", read |-> TRUE, row |-> h.count,
            post |-> [value   |-> ExtractIntegral(cell.text, pre.value),
                      is_null |-> PQgetisnull(res, h.count, index)],
            trace |-> trace, h |-> h]

\* _bind_text_result with the bounds check "index >= fields".
_bind_text_result_strict(h, res, index, pre, ub) ==
  LET trace == DebugTrace(h, "binding text result") IN
    IF index >= h.fields
      THEN [outcome |-> "out_of_range", read |-> FALSE, row |-> h.count,
            post |-> pre, trace |-> trace, h |-> h]
    ELSE [outcome |-> "ok", read |-> TRUE, row |-> h.count,
          post |-> [value |-> PQgetvalue(res, h.count, index).ptr,
                    len   |-> PQgetlength(res, h.count, index)],
          trace |-> trace, h |-> h]

\* _bind_text_result that moves to the next row after reading.
_bind_text_result_consuming(h, res, index, pre, ub) ==
  LET trace == DebugTrace(h, "binding text result") IN
    IF index > h.fields
      THEN [outcome |-> "out_of_range", read |-> FALSE, row |-> h.count,
            post |-> pre, trace |-> trace, h |-> h]
    ELSE [outcome |-> "ok", read |-> TRUE, row |-> h.count,
          post |-> [value |-> PQgetvalue(res, h.count, index).ptr,
                    len   |-> PQgetlength(res, h.count, index)],
          trace |-> trace, h |-> [h EXCEPT !.count = h.count + 1]]

\* bind_result_t::_bind_text_result
_bind_text_result(h, res, index, pre, ub) ==
  LET trace == DebugTrace(h, "binding text result") IN
    IF index > h.fields
      THEN [outcome |-> "out_of_range", read |-> FALSE, row |-> h.count,
            post |-> pre, trace |-> trace, h |-> h]
    ELSE [outcome |-> "ok", read |-> TRUE, row |-> h.count,
          post |-> [value |-> PQgetvalue(res, h.count, index).ptr,
                    len   |-> PQgetlength(res, h.count, index)],
          trace |-> trace, h |-> h]

(***************************************************************************)
(* The caller: the column indexes it asks for and what its output          *)
(* variables hold before a decode.                                         *)
(***************************************************************************)
Indexes == 0 .. MaxFields + 1

PreInt == {[value |-> 0, is_null |-> FALSE], [value |-> 7, is_null |-> TRUE]}

PreFloating ==
  {[value |-> [m |-> 0, e |-> 0], is_null |-> FALSE],
   [value |-> [m |-> 7, e |-> 0], is_null |-> TRUE]}

PreText == {[value |-> NullPtr, len |-> l] : l \in {0, 7}}

DecodeOps == {"_bind_boolean_result", "_bind_floating_point_result",
              "_bind_integral_result", "_bind_text_result"}

ScalarOps == DecodeOps \ {"_bind_text_result"}

NoCall ==
  [op |-> "none", index |-> 0, outcome |-> "ok", ret |-> FALSE,
   read |-> FALSE, row |-> 0, pre |-> <<>>, post |-> <<>>, trace |-> <<>>]

\* The record of a next_impl call.
NextCall(r) ==
  [op |-> "next_impl", index |-> 0, outcome |-> "ok", ret |-> r.ret,
   read |-> FALSE, row |-> r.h.count, pre |-> <<>>, post |-> <<>>,
   trace |-> r.trace]

\* The record of a decode call.
DecodeCall(op, index, pre, r) ==
  [op |-> op, index |-> index, outcome |-> r.outcome, ret |-> FALSE,
   read |-> r.read, row |-> r.row, pre |-> pre, post |-> r.post,
   trace |-> r.trace]

NoExc ==
  [kind |-> "none", ctor |-> "none", pos_arg |-> <<>>,
   error_position |-> <<>>]

NoHandler == "none"

\* The process runs until a call faults.
Running == last.outcome # "crash"

Init ==
  /\ result \in Results
  /\ \E dbg \in BOOLEAN :
       /\ handle = prepared_statement_handle_t(dbg)
       /\ twin = prepared_statement_handle_t(~dbg)
  /\ last = NoCall
  /\ lastTwin = NoCall
  /\ retHist = <<>>
  /\ exc = NoExc
  /\ handler = NoHandler
  /\ caught = FALSE

Advance ==
  /\ Running
  /\ Len(retHist) < MaxCalls
  /\ LET r == next_impl(handle, result)
         t == next_impl(twin, result)
     IN  /\ handle' = r.h
         /\ twin' = t.h
         /\ last' = NextCall(r)
         /\ lastTwin' = NextCall(t)
         /\ retHist' = Append(retHist, r.ret)
  /\ UNCHANGED <<result, exc, handler, caught>>

DecodeBoolean ==
  /\ Running
  /\ \E index \in Indexes, pre \in PreInt, ub \in UBOutcomes :
       LET r == _bind_boolean_result(handle, result, index, pre, ub)
           t == _bind_boolean_result(twin, result, index, pre, ub)
       IN  /\ handle' = r.h
           /\ twin' = t.h
           /\ last' = DecodeCall("_bind_boolean_result", index, pre, r)
           /\ lastTwin' = DecodeCall("_bind_boolean_result", index, pre, t)
  /\ UNCHANGED <<result, retHist, exc, handler, caught>>

DecodeFloatingPoint ==
  /\ Running
  /\ \E index \in Indexes, pre \in PreFloating, ub \in UBOutcomes :
       LET r == _bind_floating_point_result(handle, result, index, pre, ub)
           t == _bind_floating_point_result(twin, result, index, pre, ub)
       IN  /\ handle' = r.h
           /\ twin' = t.h
           /\ last' = DecodeCall("_bind_floating_point_result", index, pre, r)
           /\ lastTwin' =
                DecodeCall("_bind_floating_point_result", index, pre, t)
  /\ UNCHANGED <<result, retHist, exc, handler, caught>>

DecodeIntegral ==
  /\ Running
  /\ \E index \in Indexes, pre \in PreInt, ub \in UBOutcomes :
       LET r == _bind_integral_result(handle, result, index, pre, ub)
           t == _bind_integral_result(twin, result, index, pre, ub)
       IN  /\ handle' = r.h
           /\ twin' = t.h
           /\ last' = DecodeCall("_bind_integral_result", index, pre, r)
           /\ lastTwin' = DecodeCall("_bind_integral_result", index, pre, t)
  /\ UNCHANGED <<result, retHist, exc, handler, caught>>

DecodeText ==
  /\ Running
  /\ \E index \in Indexes, pre \in PreText, ub \in UBOutcomes :
       LET r == _bind_text_result(handle, result, index, pre, ub)
           t == _bind_text_result(twin, result, index, pre, ub)
       IN  /\ handle' = r.h
           /\ twin' = t.h
           /\ last' = DecodeCall("_bind_text_result", index, pre, r)
           /\ lastTwin' = DecodeCall("_bind_text_result", index, pre, t)
  /\ UNCHANGED <<result, retHist, exc, handler, caught>>

Next ==
  \/ Advance
  \/ DecodeBoolean
  \/ DecodeFloatingPoint
  \/ DecodeIntegral
  \/ DecodeText

Spec == Init /\ [][Next]_vars

(***************************************************************************)
(* The exception classes of exception.h.                                   *)
(***************************************************************************)
Kinds ==
  {"failure", "broken_connection", "sql_error", "in_doubt_error",
   "feature_not_supported", "data_exception",
   "integrity_constraint_violation", "restrict_violation",
   "not_null_violation", "foreign_key_violation", "unique_violation",
   "check_violation", "invalid_cursor_state", "invalid_sql_statement_name",
   "invalid_cursor_name", "syntax_error", "undefined_column",
   "undefined_function", "undefined_table", "insufficient_privilege",
   "insufficient_resources", "disk_full", "out_of_memory",
   "too_many_connections", "plpgsql_error", "plpgsql_raise",
   "plpgsql_no_data_found", "plpgsql_too_many_rows"}

\* The root of the connector's classes derives from the library's exception.
SqlppException == "sqlpp::exception"

\* Base with the integrity violations derived from sql_error directly.
BaseFlatIntegrity ==
  [K \in Kinds |->
     CASE K = "failure" -> SqlppException
       [] K \in {"broken_connection", "sql_error", "in_doubt_error"}
            -> "failure"
       [] K = "too_many_connections" -> "broken_connection"
       [] K \in {"undefined_column", "undefined_function", "undefined_table"}
            -> "syntax_error"
       [] K \in {"disk_full", "out_of_memory"} -> "insufficient_resources"
       [] K \in {"plpgsql_raise", "plpgsql_no_data_found",
                 "plpgsql_too_many_rows"} -> "plpgsql_error"
       [] OTHER -> "sql_error"]

\* The public base class each class declares.
Base ==
  [K \in Kinds |->
     CASE K = "failure" -> SqlppException
       [] K = "broken_connection" -> "failure"
       [] K = "sql_error" -> "failure"
       [] K = "in_doubt_error" -> "failure"
       [] K = "feature_not_supported" -> "sql_error"
       [] K = "data_exception" -> "sql_error"
       [] K = "integrity_constraint_violation" -> "sql_error"
       [] K = "restrict_violation" -> "integrity_constraint_violation"
       [] K = "not_null_violation" -> "integrity_constraint_violation"
       [] K = "foreign_key_violation" -> "integrity_constraint_violation"
       [] K = "unique_violation" -> "integrity_constraint_violation"
       [] K = "check_violation" -> "integrity_constraint_violation"
       [] K = "invalid_cursor_state" -> "sql_error"
       [] K = "invalid_sql_statement_name" -> "sql_error"
       [] K = "invalid_cursor_name" -> "sql_error"
       [] K = "syntax_error" -> "sql_error"
       [] K = "undefined_column" -> "syntax_error"
       [] K = "undefined_function" -> "syntax_error"
       [] K = "undefined_table" -> "syntax_error"
       [] K = "insufficient_privilege" -> "sql_error"
       [] K = "insufficient_resources" -> "sql_error"
       [] K = "disk_full" -> "insufficient_resources"
       [] K = "out_of_memory" -> "insufficient_resources"
       [] K = "too_many_connections" -> "broken_connection"
       [] K = "plpgsql_error" -> "sql_error"
       [] K = "plpgsql_raise" -> "plpgsql_error"
       [] K = "plpgsql_no_data_found" -> "plpgsql_error"
       [] K = "plpgsql_too_many_rows" -> "plpgsql_error"]

\* The constructor signatures each class declares: "" is the default
\* constructor, "err" takes the message, "err_Q" the message and the query,
\* "_pos" an explicit error position.
Ctors ==
  [K \in Kinds |->
     CASE K \in {"failure", "in_doubt_error", "too_many_connections"}
            -> {"err"}
       [] K = "broken_connection" -> {"", "err"}
       [] K = "sql_error" -> {"", "err", "err_Q"}
       [] K = "syntax_error" -> {"err", "err_Q", "err_pos", "err_Q_pos"}
       [] OTHER -> {"err", "err_Q"}]

\* The positions a caller passes (int).
Positions == {0, 1, 17, 2147483647}

\* syntax_error with the position argument defaulting to 0.
syntax_error_default_zero(ctor, pos) ==
  [kind |-> "syntax_error", ctor |-> ctor,
   pos_arg |-> IF ctor \in {"err_pos", "err_Q_pos"} THEN <<pos>> ELSE <<>>,
   error_position |-> IF ctor \in {"err_pos", "err_Q_pos"}
                        THEN <<pos>> ELSE <<0>>]

\* syntax_error::syntax_error: the position argument defaults to -1.
\* (ctor and pos_arg record the call; error_position is the member.)
syntax_error(ctor, pos) ==
  [kind |-> "syntax_error", ctor |-> ctor,
   pos_arg |-> IF ctor \in {"err_pos", "err_Q_pos"} THEN <<pos>> ELSE <<>>,
   error_position |-> IF ctor \in {"err_pos", "err_Q_pos"}
                        THEN <<pos>> ELSE <<-1>>]

\* The object a constructor call of class K builds; error_position is <<>>
\* for the classes without that member.  The classes derived from
\* syntax_error call its constructor without a position.
Construct(K, ctor, pos) ==
  IF K = "syntax_error" THEN syntax_error(ctor, pos)
  ELSE IF Base[K] = "syntax_error"
    THEN [syntax_error(ctor, pos) EXCEPT !.kind = K]
  ELSE [kind |-> K, ctor |-> ctor, pos_arg |-> <<>>,
        error_position |-> <<>>]

\* Whether a handler "catch (const H &)" takes an exception of class K: H is
\* K or a public base class of K.
RECURSIVE IsCatchableAs(_, _)
IsCatchableAs(K, H) ==
  \/ K = H
  \/ K \in Kinds /\ IsCatchableAs(Base[K], H)

HandlerTypes == Kinds \cup {SqlppException}

InitExc ==
  /\ result = MakeResult(0, 0, 0)
  /\ handle = prepared_statement_handle_t(FALSE)
  /\ twin = prepared_statement_handle_t(TRUE)
  /\ last = NoCall
  /\ lastTwin = NoCall
  /\ retHist = <<>>
  /\ exc = NoExc
  /\ handler = NoHandler
  /\ caught = FALSE

\* throw K(...)
Throw ==
  /\ exc = NoExc
  /\ \E K \in Kinds : \E ctor \in Ctors[K], pos \in Positions :
       exc' = Construct(K, ctor, pos)
  /\ handler' = NoHandler
  /\ caught' = FALSE
  /\ UNCHANGED cursorVars

\* The exception reaches a handler catch (const H &).
Catch ==
  /\ exc # NoExc
  /\ ~caught
  /\ \E H \in HandlerTypes :
       /\ handler' = H
       /\ caught' = IsCatchableAs(exc.kind, H)
  /\ UNCHANGED exc
  /\ UNCHANGED cursorVars

\* The handler finishes and the exception object is destroyed.
Handled ==
  /\ caught
  /\ exc' = NoExc
  /\ handler' = NoHandler
  /\ caught' = FALSE
  /\ UNCHANGED cursorVars

NextExc ==
  \/ Throw
  \/ Catch
  \/ Handled

SpecExc == InitExc /\ [][NextExc]_vars


(***************************************************************************)
(* Properties of the result cursor (checked under Spec).                   *)
(***************************************************************************)
Range(seq) == {seq[i] : i \in 1 .. Len(seq)}

\* C1: on a result set of N rows (N >= 0) a fresh handle's next_impl returns
\* true on exactly the first N calls and false on every later call.
C1_TrueExactlyNTimes ==
  \A i \in 1 .. Len(retHist) : retHist[i] = (i <= PQntuples(result))

\* C2: a scalar decode that does not raise reports as is_null the buffer's
\* null marker of the cell (current row, column index), whatever the text.
C2_IsNullIsBufferMarker ==
  (last.op \in ScalarOps /\ last.outcome = "ok") =>
     /\ check_tuple_field_number(result, handle.count, last.index)
     /\ last.post.is_null = result.cells[<<handle.count, last.index>>].null

\* C2 witness: an integral decode of a null cell of row 1 set is_null over
\* an output that held false.
C2_Witness ==
  /\ last.op = "_bind_integral_result"
  /\ last.outcome = "ok"
  /\ handle.count = 1
  /\ result.cells[<<handle.count, last.index>>].null
  /\ ~last.pre.is_null
  /\ last.post.is_null

\* C3: a decode raises out-of-range exactly when the column index is
\* strictly greater than the cached field count; an index equal to it passes
\* the check and reads the buffer; a call that raises writes no output.
C3_RaisesIffIndexAboveFields ==
  last.op \in DecodeOps =>
     /\ (last.outcome = "out_of_range") <=> (last.index > handle.fields)
     /\ (last.index <= handle.fields) => last.read
     /\ (last.outcome = "out_of_range") =>
           (last.post = last.pre /\ ~last.read)

\* C3 witness: a text decode at the index equal to the cached (non-zero)
\* field count passed the check and read the buffer.
C3_Witness ==
  /\ last.op = "_bind_text_result"
  /\ handle.fields > 0
  /\ last.index = handle.fields
  /\ last.read
  /\ last.outcome = "ok"

\* C6: once next_impl has been called, for every row count N >= 0 the row
\* index is in [0, N).
C6_RowIndexInRange ==
  Len(retHist) >= 1 =>
     (0 <= handle.count /\ handle.count < PQntuples(result))

\* C7 as claimed: a decode call leaves the field count cached from the
\* buffer, whether or not next_impl has been called.
C7_DecodeCachesFields ==
  last.op \in DecodeOps => handle.fields = PQnfields(result)

\* C7 as amended: the field count is cached by next_impl (a call that
\* returns true while none is cached), never by a decode: a decode leaves the
\* field count as it is and checks the index against that value.
C7_FieldsCachedByNextImpl ==
  [][ /\ last'.op \in DecodeOps =>
           /\ handle'.fields = handle.fields
           /\ (last'.outcome = "out_of_range") <=>
                 (last'.index > handle.fields)
      /\ (last'.op = "next_impl" /\ last'.ret /\ handle.fields = 0) =>
           handle'.fields = PQnfields(result)
      /\ (last'.op = "next_impl" /\ (~last'.ret \/ handle.fields # 0)) =>
           handle'.fields = handle.fields ]_vars

\* C7 witness: the first call on a fresh handle is a decode of column 1 of a
\* buffer with two fields; it raises against the uncached count 0.
C7_Witness ==
  /\ last.op \in DecodeOps
  /\ retHist = <<>>
  /\ PQnfields(result) = 2
  /\ last.index = 1
  /\ last.outcome = "out_of_range"
  /\ handle.fields = 0

\* C8: a next_impl call made when the row index equals the handle's total
\* row count minus one returns false and changes nothing in the handle, and
\* so does every call after a call that returned false.
C8_ExhaustionIsStable ==
  [][ ( /\ last'.op = "next_impl"
        /\ Len(retHist') = Len(retHist) + 1
        /\ \/ handle.totalCount # 0 /\ handle.count = handle.totalCount - 1
           \/ FALSE \in Range(retHist) )
      => (last'.ret = FALSE /\ handle' = handle) ]_vars

\* C8 witness: two calls in a row returned false on a buffer of two rows.
C8_Witness ==
  /\ PQntuples(result) = 2
  /\ retHist = <<TRUE, TRUE, FALSE, FALSE>>
  /\ last.op = "next_impl"
  /\ handle.count = 1

\* C9: two handles over the same buffer that differ only in the debug flag
\* return the same values, outputs and errors and keep the same row index
\* and cached counts after every call.
C9_DebugIsObservationOnly ==
  /\ handle.debug # twin.debug
  /\ [handle EXCEPT !.debug = FALSE] = [twin EXCEPT !.debug = FALSE]
  /\ [last EXCEPT !.trace = <<>>] = [lastTwin EXCEPT !.trace = <<>>]

\* C9 witness: after next_impl, a decode parsed a value on both handles and
\* only one of them wrote a trace.
C9_Witness ==
  /\ last.op = "_bind_boolean_result"
  /\ last.outcome = "ok"
  /\ last.post.value = 116
  /\ Len(retHist) >= 1
  /\ last.trace # lastTwin.trace

\* C10: no decode, raising or not, changes the row index or the cached
\* counts, and every decode reads the row the index points at.
C10_DecodeLeavesHandle ==
  [][ last'.op \in DecodeOps =>
        (handle' = handle /\ twin' = twin /\ last'.row = handle.count) ]_vars

\* C10 witness: a text decode after two next_impl calls read row 1.
C10_Witness ==
  /\ last.op = "_bind_text_result"
  /\ last.outcome = "ok"
  /\ retHist = <<TRUE, TRUE>>
  /\ last.post.value = <<1, 0>>

(***************************************************************************)
(* Properties of the exception classes (checked under SpecExc).            *)
(***************************************************************************)
\* The hierarchy as the specification draws it: the children of each kind.
SpecChildren(K) ==
  CASE K = "failure" -> {"broken_connection", "sql_error", "in_doubt_error"}
    [] K = "broken_connection" -> {"too_many_connections"}
    [] K = "sql_error" ->
         {"feature_not_supported", "data_exception",
          "integrity_constraint_violation", "invalid_cursor_state",
          "invalid_sql_statement_name", "invalid_cursor_name",
          "syntax_error", "insufficient_privilege",
          "insufficient_resources", "plpgsql_error"}
    [] K = "integrity_constraint_violation" ->
         {"restrict_violation", "not_null_violation",
          "foreign_key_violation", "unique_violation", "check_violation"}
    [] K = "syntax_error" ->
         {"undefined_column", "undefined_function", "undefined_table"}
    [] K = "insufficient_resources" -> {"disk_full", "out_of_memory"}
    [] K = "plpgsql_error" ->
         {"plpgsql_raise", "plpgsql_no_data_found", "plpgsql_too_many_rows"}
    [] OTHER -> {}

\* The kinds of the drawn tree below K, K included.
RECURSIVE SpecSubtree(_)
SpecSubtree(K) ==
  {K} \cup UNION {SpecSubtree(C) : C \in SpecChildren(K)}

\* K together with its ancestors in the drawn tree.
SpecSelfAndAncestors(K) == {A \in Kinds : K \in SpecSubtree(A)}

\* C4: an exception of kind K is caught by a handler for a failure kind H
\* exactly when H is K or an ancestor of K in the specification's tree, and
\* the declared base classes form that tree, rooted at failure.
C4_CatchableAsAncestors ==
  /\ SpecSubtree("failure") = Kinds
  /\ Base["failure"] \notin Kinds
  /\ \A K \in Kinds \ {"failure"} : K \in SpecChildren(Base[K])
  /\ (exc # NoExc /\ handler \in Kinds) =>
        (caught <=> handler \in SpecSelfAndAncestors(exc.kind))

\* C4 witness: a unique_violation was caught by a handler for sql_error.
C4_Witness ==
  /\ exc.kind = "unique_violation"
  /\ handler = "sql_error"
  /\ caught

\* C5: a syntax_error built without a position reports -1, one built with a
\* position p reports p, and the position of a live object never changes.
C5_PositionAtConstruction ==
  (exc.kind = "syntax_error") =>
     exc.error_position =
        (IF exc.ctor \in {"err", "err_Q"} THEN <<-1>> ELSE exc.pos_arg)

C5_ErrorPosition ==
  /\ []C5_PositionAtConstruction
  /\ [][(exc # NoExc /\ exc' # NoExc) =>
          exc'.error_position = exc.error_position]_vars

\* C5 witness: a syntax_error built from a message and a query, without a
\* position, reports -1 while a handler holds it.
C5_Witness ==
  /\ exc.kind = "syntax_error"
  /\ exc.ctor = "err_Q"
  /\ exc.error_position = <<-1>>
  /\ caught

====
